---- MODULE Spec2Model ----
(***************************************************************************)
(* Model of jamesmunns/trait-machine.                                      *)
(*                                                                         *)
(*  - examples/bootloader/src/main.rs: the Host and the Client, both       *)
(*    driven by the shared bootload / bootload_inner sequencing, talking   *)
(*    over two bounded tokio mpsc channels (Spec, FairSpec), and the       *)
(*    Client alone against a peer that sends arbitrary messages (SpecAdv). *)
(*  - src/main.rs: the generic Bootloader skeleton, step_sector (SpecBl).  *)
(*                                                                         *)
(* Every .await on a channel is a suspension point and is one action.      *)
(* Code between two suspension points runs inside the action that ends at  *)
(* the second one.  The flash geometry is scaled down: SECTOR_SIZE is a    *)
(* whole number of chunks and TOTAL_SIZE a whole number of sectors, as in  *)
(* the source (4096 = 16 * 256, 32 * 1024 = 8 * 4096).                     *)
(***************************************************************************)
EXTENDS Integers, Sequences, FiniteSets, TLC

\* ------------------------------------------------------------------ bounds

\* Bytes per chunk (256 in the source, scaled down).
CHUNK_SIZE == 2

\* Chunks per sector (16 in the source, scaled down).
ChunksPerSector == 2

\* Sectors in the Client's flash (8 in the source, scaled down).
SectorsTotal == 2

\* How far past TOTAL_SIZE the Host image length may go.
ExtraLen == 1

\* The largest usize of the generic Bootloader's addresses (2^64 - 1 in the
\* source, scaled down so that checked_add can overflow).
UsizeMax == 15

\* ------------------------------------------------------- program constants

SECTOR_SIZE == ChunksPerSector * CHUNK_SIZE

TOTAL_SIZE == SectorsTotal * SECTOR_SIZE

\* channel(4)
ChanCap == 4

\* The erased value of a flash byte.
ERASED == 255

\* vec![0x42; ..], the demo image byte.
DemoByte == 66

\* vec![0x00; ..], the demo's initial flash byte.
DemoFlashByte == 0

\* Option<usize>::None for Client.image_len.
None == -1

\* ------------------------------------------------------------------ inputs

\* Image contents: the demo's constant image, an image of erased-valued
\* bytes, and an image whose bytes depend on their position.
ImagePatterns == {"demo", "erased", "ramp"}

ImageByte(pattern, i) ==
    CASE pattern = "demo" -> DemoByte
      [] pattern = "erased" -> ERASED
      [] OTHER -> 1 + (i % 7)

MakeImage(pattern, len) == [i \in 1..len |-> ImageByte(pattern, i - 1)]

Images == {MakeImage(p, l) : p \in ImagePatterns, l \in 0..(TOTAL_SIZE + ExtraLen)}

FlashFills == {DemoFlashByte, ERASED}

Addrs == 0..(TOTAL_SIZE - 1)

VARIABLES
    image,      \* Host.image
    host,       \* Host.position, the locals of bootload_inner, the outcome;
                \* history: aborts counts the calls of abort, sends the
                \* requests sent, acks the expected replies received, last
                \* the reply received last
    client,     \* Client.position, Client.image_len, locals, the outcome;
                \* history: aborts, and rejected, the message that failed a step
    flash,      \* Client.flash
    h2c,        \* the Host2Client channel, oldest first
    c2h,        \* the Client2Host channel, oldest first
    accepted,   \* history: addresses passed to chunk_write, in order
    fresh,      \* history: addresses erased by sector_erase and not written since
    sent,       \* history: Client2Host messages the Client sent, in order
    flash0      \* history: the flash content at construction

\* The generic Bootloader of src/main.rs.
VARIABLES
    bl,         \* step_sector's locals (start, end, now) and its outcome
    blHw,       \* the Hw implementation's constants
    blWrites,   \* history: the chunks passed to hw.write_chunk, in order
    blSent,     \* history: FromBootloader messages sent, in order
    run         \* Bootloader::run: where it is, and history: steps begun,
                \* ErrorReset sends attempted, the message of the last recv

\* The auther example: two_factor on a Host and a Client.
VARIABLES
    authHost,   \* the Host's place in two_factor, its offer and its outcome;
                \* history: response, the ChallengeResponse value it received
    authClient, \* the Client's fields (username, password), its place in
                \* two_factor, the challenge it was offered and its outcome
    authH2c,    \* the Host2Client channel, oldest first
    authC2h     \* the Client2Host channel, oldest first

authvars == <<authHost, authClient, authH2c, authC2h>>

bootvars == <<image, host, client, flash, h2c, c2h, accepted, fresh, sent, flash0>>

blvars == <<bl, blHw, blWrites, blSent, run>>

vars == <<image, host, client, flash, h2c, c2h, accepted, fresh, sent, flash0,
          bl, blHw, blWrites, blSent, run,
          authHost, authClient, authH2c, authC2h>>

\* ---------------------------------------------------------------- messages

Start(n) == [type |-> "Start", total_size |-> n]
EraseSector(a, l) == [type |-> "EraseSector", addr |-> a, len |-> l]
WriteData(a, d) == [type |-> "WriteData", addr |-> a, data |-> d]
Boot == [type |-> "Boot"]
Abort == [type |-> "Abort"]

NoMessage == [type |-> "None"]

Starting == [type |-> "Starting"]
SectorErased == [type |-> "SectorErased"]
ChunkWritten == [type |-> "ChunkWritten"]
Booting == [type |-> "Booting"]
ErrorReset == [type |-> "ErrorReset"]

\* ToBootloader and FromBootloader of src/main.rs.
BlStart == [type |-> "Start"]
StartSector(s, l) == [type |-> "StartSector", start |-> s, len |-> l]
Chunk(s, d, c) == [type |-> "Chunk", start |-> s, data |-> d, crc |-> c]

BlOk == [type |-> "Ok"]
BlErrorReset == [type |-> "ErrorReset"]
ErasedSector(s) == [type |-> "ErasedSector", start |-> s]

\* Client2Host and Host2Client of the auther example, and its Offer.
Authenticate(u, p) == [type |-> "Authenticate", username |-> u, password |-> p]
ChallengeResponse(r) == [type |-> "ChallengeResponse", response |-> r]
AuthErrorReset == [type |-> "ErrorReset"]
OfferMsg(o) == [type |-> "Offer", offer |-> o]
TokenMsg(t) == [type |-> "Token", token |-> t]

Authenticated(t) == [kind |-> "Authenticated", token |-> t]
ChallengeOffer(c) == [kind |-> "Challenge", challenge |-> c]
NoOffer == [kind |-> "None"]

\* Hw implementations: SECTOR_SIZE and TOTAL_RANGE.start are the
\* implementer's; the range starts at 0 or one sector in.
HwImpls == {[sector_size |-> SECTOR_SIZE, range_start |-> r] : r \in {0, SECTOR_SIZE}}

\* The number of step calls Bootloader::run is followed through.
MaxSteps == 3

\* ---------------------------------------------------------------- channels

\* An endpoint pair is alive until its owner (the Host or the Client struct)
\* is dropped: the task that owns it panicked, or unwrapped an Err.
Alive(p) == p.alive

\* Sender::send completes when there is room or when the receiver is gone.
CanSend(chan, peer) == Len(chan) < ChanCap \/ ~Alive(peer)

\* Sender::send returns Ok iff the receiver is alive.
SendOk(peer) == Alive(peer)

\* Receiver::recv completes when a message is queued or every sender is gone.
CanRecv(chan, peer) == chan # <<>> \/ ~Alive(peer)

\* Receiver::recv returns Some iff a message is queued.
RecvOk(chan) == chan # <<>>

\* ------------------------------------------------------------------- Init

InitBootload ==
    /\ image \in Images
    /\ host = [pc |-> "start_send", position |-> 0, start |-> 0, now |-> 0,
               image_end |-> 0, res |-> "Running", alive |-> TRUE, aborts |-> 0,
               sends |-> 0, acks |-> 0, last |-> NoMessage,
               writes |-> 0, skips |-> 0]
    /\ client = [pc |-> "start_recv", position |-> 0, image_len |-> None,
                 start |-> 0, now |-> 0, image_end |-> 0, res |-> "Running",
                 alive |-> TRUE, aborts |-> 0, rejected |-> NoMessage]
    /\ \E b \in FlashFills : flash = [a \in Addrs |-> b]
    /\ h2c = <<>>
    /\ c2h = <<>>
    /\ accepted = <<>>
    /\ fresh = {}
    /\ sent = <<>>
    /\ flash0 = flash

\* A Bootloader over the Hw implementation hw, about to run step_sector.
InitBootloader(hw) ==
    /\ bl = [pc |-> "sector_recv", start |-> 0, end |-> 0, now |-> 0,
             res |-> "Running"]
    /\ blHw = hw
    /\ blWrites = <<>>
    /\ blSent = <<>>
    /\ run = [pc |-> "step_recv", steps |-> 0, resets |-> 0,
              last |-> NoMessage, res |-> "Running"]

\* The tokens and the challenge the Host hands out.
RootToken == 5678
ChallengeToken == 1234
ChallengeText == "butts"

\* The credentials main gives its Client.
DemoUsername == "tryme"
DemoPassword == "tryme"

\* Credentials a Client may be built with: the two pairs the Host knows,
\* and pairs it does not know.
Usernames == {"root", "tryme", "guest"}
Passwords == {"hunter2", "tryme", "wrong"}

\* How the client side answers a challenge: with challenge_responder, as
\* this Client does, or with something else, as a peer that does not know
\* the scheme would.
Responders == {"challenge_responder", "other"}

\* A Host and a Client with the given fields, about to run two_factor.
InitAuther(u, p, r) ==
    /\ authHost = [pc |-> "creds_recv", offer |-> NoOffer, response |-> None,
                   token |-> None, res |-> "Running", alive |-> TRUE]
    /\ authClient = [pc |-> "creds_send", username |-> u, password |-> p,
                     responder |-> r, challenge |-> "", token |-> None,
                     res |-> "Running", alive |-> TRUE]
    /\ authH2c = <<>>
    /\ authC2h = <<>>

Init ==
    /\ InitBootload
    /\ InitBootloader([sector_size |-> SECTOR_SIZE, range_start |-> 0])
    /\ InitAuther(DemoUsername, DemoPassword, "challenge_responder")

\* ------------------------------------------------------------------- Host

\* Host::next_sector, and the head of bootload_inner's outer loop: the next
\* sector starts at the position, or the image is done and boot follows.
HostNextSector(h) ==
    IF h.position < Len(image)
    THEN [h EXCEPT !.pc = "erase_send", !.start = h.position]
    ELSE [h EXCEPT !.pc = "boot_send"]

\* Mutant: the inner loop runs to the sector's end whatever the image's end.
HostContinueWholeSector(h) ==
    IF h.now < h.start + SECTOR_SIZE
    THEN [h EXCEPT !.pc = "write_send"]
    ELSE HostNextSector(h)

\* bootload_inner's inner loop test, falling through to the outer loop.
HostContinue(h) ==
    IF h.now < h.start + SECTOR_SIZE /\ h.now < h.image_end
    THEN [h EXCEPT !.pc = "write_send"]
    ELSE HostNextSector(h)

\* A task whose bootload returned Err unwraps it and panics; a task that
\* panics is dropped with its Host or Client, closing both its endpoints.
Dropped(p, outcome) == [p EXCEPT !.pc = "done", !.res = outcome, !.alive = FALSE]

\* bootload_inner returned Err: bootload calls abort next.
ToAbort(p) == [p EXCEPT !.pc = "abort"]

\* Mutant: a message that fails the step is skipped and the step goes on.
RejectIgnore(c, m) == c

\* A received message failed the Client's step; the history keeps its
\* variant and, where it has them, its address and sector length.
Reject(c, m) ==
    [ToAbort(c) EXCEPT !.rejected =
        CASE m.type = "EraseSector" ->
                 [type |-> m.type, addr |-> m.addr, len |-> m.len]
          [] m.type = "WriteData" -> [type |-> m.type, addr |-> m.addr]
          [] OTHER -> [type |-> m.type]]

\* History of the Host's requests and of the replies it expected.
Sent(h) == [h EXCEPT !.sends = h.sends + 1]
Acked(h) == [h EXCEPT !.acks = h.acks + 1]
Got(h, m) == [h EXCEPT !.last = m]
Wrote(h) == [h EXCEPT !.writes = h.writes + 1]
Skipped(h) == [h EXCEPT !.skips = h.skips + 1]

\* Mutant: the Host goes on to the next chunk without awaiting ChunkWritten.
HostSentChunkNoWait(h) ==
    HostContinue([h EXCEPT !.position = h.position + CHUNK_SIZE,
                           !.now = h.now + CHUNK_SIZE])

\* Mutant: the position moves two chunks for one WriteData.
HostSentChunkTwice(h) ==
    [h EXCEPT !.pc = "write_recv", !.position = h.position + 2 * CHUNK_SIZE]

\* Mutant: the position is left for the acknowledgement to advance.
HostSentChunkLate(h) == [h EXCEPT !.pc = "write_recv"]

\* The position after a WriteData went out, awaiting its ChunkWritten.
HostSentChunk(h) ==
    [h EXCEPT !.pc = "write_recv", !.position = h.position + CHUNK_SIZE]

\* Mutant: Host::boot matches the wrong acknowledgement.
HostBootAcceptsStarting(m) == m = Starting

\* Host::boot's match on the reply.
HostBootAccepts(m) == m = Booting

\* Mutant: the slice is taken from the start of the image, not the position.
ChunkDataFromStart(img, pos) == SubSeq(img, 1, CHUNK_SIZE)

\* The slice the Host sends: &self.image[self.position..][..CHUNK_SIZE].
ChunkData(img, pos) == SubSeq(img, pos + 1, pos + CHUNK_SIZE)

\* The slice expression panics unless CHUNK_SIZE bytes remain.
ChunkSliceOk(img, pos) == pos <= Len(img) /\ CHUNK_SIZE <= Len(img) - pos

\* Host::start, the send.
HostStartSend ==
    /\ host.pc = "start_send"
    /\ CanSend(h2c, client)
    /\ IF SendOk(client)
       THEN /\ h2c' = Append(h2c, Start(Len(image)))
            /\ host' = Sent([host EXCEPT !.pc = "start_recv"])
       ELSE /\ host' = ToAbort(host)
            /\ UNCHANGED h2c
    /\ UNCHANGED <<image, client, flash, c2h, accepted, fresh, sent, flash0, blvars, authvars>>

\* Host::start, the receive: Starting gives image_end = image.len().
HostStartRecv ==
    /\ host.pc = "start_recv"
    /\ CanRecv(c2h, client)
    /\ IF RecvOk(c2h)
       THEN /\ c2h' = Tail(c2h)
            /\ host' = IF Head(c2h) = Starting
                       THEN HostNextSector(Acked([Got(host, Head(c2h)) EXCEPT
                                               !.image_end = Len(image)]))
                       ELSE ToAbort(Got(host, Head(c2h)))
       ELSE /\ host' = ToAbort(host)
            /\ UNCHANGED c2h
    /\ UNCHANGED <<image, client, flash, h2c, accepted, fresh, sent, flash0, blvars, authvars>>

\* Host::erase_sector, the send.
HostEraseSend ==
    /\ host.pc = "erase_send"
    /\ CanSend(h2c, client)
    /\ IF SendOk(client)
       THEN /\ h2c' = Append(h2c, EraseSector(host.start, SECTOR_SIZE))
            /\ host' = Sent([host EXCEPT !.pc = "erase_recv"])
       ELSE /\ host' = ToAbort(host)
            /\ UNCHANGED h2c
    /\ UNCHANGED <<image, client, flash, c2h, accepted, fresh, sent, flash0, blvars, authvars>>

\* Host::erase_sector, the receive; then now = start and the inner loop test.
HostEraseRecv ==
    /\ host.pc = "erase_recv"
    /\ CanRecv(c2h, client)
    /\ IF RecvOk(c2h)
       THEN /\ c2h' = Tail(c2h)
            /\ host' = IF Head(c2h) = SectorErased
                       THEN HostContinue(Acked([Got(host, Head(c2h)) EXCEPT !.now = host.start]))
                       ELSE ToAbort(Got(host, Head(c2h)))
       ELSE /\ host' = ToAbort(host)
            /\ UNCHANGED c2h
    /\ UNCHANGED <<image, client, flash, h2c, accepted, fresh, sent, flash0, blvars, authvars>>

\* Host::write_next_chunk up to its receive: past the image end the position
\* advances with nothing sent; otherwise the slice is taken (a panic when
\* fewer than CHUNK_SIZE bytes remain), sent, and the position advances.
HostWriteNextChunk ==
    /\ host.pc = "write_send"
    /\ IF Len(image) <= host.position
       THEN /\ host' = HostContinue(Skipped([host EXCEPT
                           !.position = host.position + CHUNK_SIZE,
                           !.now = host.now + CHUNK_SIZE]))
            /\ UNCHANGED <<h2c, c2h>>
       ELSE IF ~ChunkSliceOk(image, host.position)
       THEN /\ host' = Dropped(host, "Panic")
            /\ c2h' = <<>>
            /\ UNCHANGED h2c
       ELSE /\ CanSend(h2c, client)
            /\ IF SendOk(client)
               THEN /\ h2c' = Append(h2c, WriteData(host.position,
                                                    ChunkData(image, host.position)))
                    /\ host' = Wrote(Sent(HostSentChunk(host)))
               ELSE /\ host' = ToAbort(host)
                    /\ UNCHANGED h2c
            /\ UNCHANGED c2h
    /\ UNCHANGED <<image, client, flash, accepted, fresh, sent, flash0, blvars, authvars>>

\* Host::write_next_chunk, the receive; then now += CHUNK_SIZE and the loop test.
HostWriteRecv ==
    /\ host.pc = "write_recv"
    /\ CanRecv(c2h, client)
    /\ IF RecvOk(c2h)
       THEN /\ c2h' = Tail(c2h)
            /\ host' = IF Head(c2h) = ChunkWritten
                       THEN HostContinue(Acked([Got(host, Head(c2h)) EXCEPT
                                             !.now = host.now + CHUNK_SIZE]))
                       ELSE ToAbort(Got(host, Head(c2h)))
       ELSE /\ host' = ToAbort(host)
            /\ UNCHANGED c2h
    /\ UNCHANGED <<image, client, flash, h2c, accepted, fresh, sent, flash0, blvars, authvars>>

\* Host::boot, the send.
HostBootSend ==
    /\ host.pc = "boot_send"
    /\ CanSend(h2c, client)
    /\ IF SendOk(client)
       THEN /\ h2c' = Append(h2c, Boot)
            /\ host' = Sent([host EXCEPT !.pc = "boot_recv"])
       ELSE /\ host' = ToAbort(host)
            /\ UNCHANGED h2c
    /\ UNCHANGED <<image, client, flash, c2h, accepted, fresh, sent, flash0, blvars, authvars>>

\* Host::boot, the receive: Booting ends bootload with Ok; the Host stays
\* alive (the task returns it to main).
HostBootRecv ==
    /\ host.pc = "boot_recv"
    /\ CanRecv(c2h, client)
    /\ IF RecvOk(c2h)
       THEN /\ c2h' = Tail(c2h)
            /\ host' = IF HostBootAccepts(Head(c2h))
                       THEN Acked([Got(host, Head(c2h)) EXCEPT !.pc = "done", !.res = "Ok"])
                       ELSE ToAbort(Got(host, Head(c2h)))
       ELSE /\ host' = ToAbort(host)
            /\ UNCHANGED c2h
    /\ UNCHANGED <<image, client, flash, h2c, accepted, fresh, sent, flash0, blvars, authvars>>

\* bootload's Err arm for the Host: Host::abort sends Abort, and bootload
\* returns Err whether or not the send worked; the task's unwrap then panics
\* and the Host is dropped (what its receiver still held is discarded).
HostAbort ==
    /\ host.pc = "abort"
    /\ CanSend(h2c, client)
    /\ h2c' = IF SendOk(client) THEN Append(h2c, Abort) ELSE h2c
    /\ host' = Dropped([host EXCEPT !.aborts = host.aborts + 1], "Err")
    /\ c2h' = <<>>
    /\ UNCHANGED <<image, client, flash, accepted, fresh, sent, flash0, blvars, authvars>>

HostStep ==
    \/ HostStartSend
    \/ HostStartRecv
    \/ HostEraseSend
    \/ HostEraseRecv
    \/ HostWriteNextChunk
    \/ HostWriteRecv
    \/ HostBootSend
    \/ HostBootRecv
    \/ HostAbort

\* ----------------------------------------------------------------- Client

\* Mutant: a sector is taken only when the image reaches past its end.
ClientNextSectorShort(c) ==
    IF c.image_len # None /\ c.position < TOTAL_SIZE
                          /\ c.position + SECTOR_SIZE < c.image_len
    THEN [c EXCEPT !.pc = "erase_recv", !.start = c.position]
    ELSE [c EXCEPT !.pc = "boot_recv"]

\* Client::next_sector: None without an image_len, else the position while
\* it is inside both the flash and the image.
ClientNextSector(c) ==
    IF c.image_len # None /\ c.position < TOTAL_SIZE /\ c.position < c.image_len
    THEN [c EXCEPT !.pc = "erase_recv", !.start = c.position]
    ELSE [c EXCEPT !.pc = "boot_recv"]

\* bootload_inner's inner loop test, falling through to the outer loop.
ClientContinue(c) ==
    IF c.now < c.start + SECTOR_SIZE /\ c.now < c.image_end
    THEN [c EXCEPT !.pc = "write_recv"]
    ELSE ClientNextSector(c)

\* Mutant: the guard on total_size is missing.
ClientStartAcceptsAny(m) == m.type = "Start"

\* Mutant: the guard excludes total_size = TOTAL_SIZE.
ClientStartAcceptsBelow(m) == m.type = "Start" /\ m.total_size < TOTAL_SIZE

\* Client::start's match arm: Start { total_size } if total_size <= TOTAL_SIZE.
ClientStartAccepts(m) == m.type = "Start" /\ m.total_size <= TOTAL_SIZE

\* Mutant: the addr of an EraseSector is not compared with the sector start.
ClientEraseAcceptsAnyAddr(m, sector_start, sector_len) ==
    m.type = "EraseSector" /\ m.len = sector_len

\* Client::erase_sector's match: EraseSector with the expected addr and len.
ClientEraseAccepts(m, sector_start, sector_len) ==
    m.type = "EraseSector" /\ m.addr = sector_start /\ m.len = sector_len

\* Mutant: any address at or past the position is taken.
ClientWriteAcceptsAhead(m, position) ==
    m.type = "WriteData" /\ m.addr >= position /\ Len(m.data) = CHUNK_SIZE

\* Mutant: any address up to the position is taken.
ClientWriteAcceptsBehind(m, position) ==
    m.type = "WriteData" /\ m.addr <= position /\ Len(m.data) = CHUNK_SIZE

\* Client::write_next_chunk's checks: WriteData at the position, CHUNK_SIZE long.
ClientWriteAccepts(m, position) ==
    m.type = "WriteData" /\ m.addr = position /\ Len(m.data) = CHUNK_SIZE

\* Mutant: a range ending at the end of the flash is refused.
RangeOkStrict(f, start, len) == start + len < TOTAL_SIZE

\* flash.get_mut(start..(start + len)) is Some.
RangeOk(f, start, len) == start + len <= TOTAL_SIZE

\* Mutant: the erase runs from the sector's start to the end of the flash.
SectorEraseToEnd(f, start, len) ==
    [a \in Addrs |-> IF start <= a THEN ERASED ELSE f[a]]

\* Mutant: only the first chunk of the sector is erased.
SectorEraseFirstChunk(f, start, len) ==
    [a \in Addrs |-> IF start <= a /\ a < start + CHUNK_SIZE THEN ERASED ELSE f[a]]

\* Client::sector_erase on an in-range sector: every byte becomes 0xFF.
SectorErase(f, start, len) ==
    [a \in Addrs |-> IF start <= a /\ a < start + len THEN ERASED ELSE f[a]]

\* The offsets at which chunk_write's assert_eq!(*b, 0xFF) fails.
DirtyOffsets(f, start, len) == {i \in 0..(len - 1) : f[start + i] # ERASED}

\* Client::chunk_write on an in-range chunk: bytes are stored in order up to
\* the first one that is not erased, where the assertion panics.
ChunkWrite(f, start, data) ==
    LET dirty == DirtyOffsets(f, start, Len(data))
        stop == IF dirty = {} THEN Len(data)
                ELSE CHOOSE i \in dirty : \A j \in dirty : i <= j
    IN [a \in Addrs |-> IF start <= a /\ a < start + stop
                        THEN data[a - start + 1] ELSE f[a]]

\* Client::start, the receive: image_len is recorded before Starting is sent.
ClientStartRecv ==
    /\ client.pc = "start_recv"
    /\ CanRecv(h2c, host)
    /\ IF RecvOk(h2c)
       THEN /\ h2c' = Tail(h2c)
            /\ client' = IF ClientStartAccepts(Head(h2c))
                         THEN [client EXCEPT !.pc = "start_send",
                                  !.image_len = Head(h2c).total_size]
                         ELSE Reject(client, Head(h2c))
       ELSE /\ client' = ToAbort(client)
            /\ UNCHANGED h2c
    /\ UNCHANGED <<image, host, flash, c2h, accepted, fresh, sent, flash0, blvars, authvars>>

\* Client::start, the send of Starting; Ok(total_size) is image_end.
ClientStartSend ==
    /\ client.pc = "start_send"
    /\ CanSend(c2h, host)
    /\ IF SendOk(host)
       THEN /\ c2h' = Append(c2h, Starting)
            /\ sent' = Append(sent, Starting)
            /\ client' = ClientNextSector([client EXCEPT
                             !.image_end = client.image_len])
       ELSE /\ client' = ToAbort(client)
            /\ UNCHANGED <<c2h, sent>>
    /\ UNCHANGED <<image, host, flash, h2c, accepted, fresh, flash0, blvars, authvars>>

\* Client::erase_sector, the receive and sector_erase.
ClientEraseRecv ==
    /\ client.pc = "erase_recv"
    /\ CanRecv(h2c, host)
    /\ IF RecvOk(h2c)
       THEN /\ h2c' = Tail(h2c)
            /\ IF /\ ClientEraseAccepts(Head(h2c), client.start, SECTOR_SIZE)
                  /\ RangeOk(flash, client.start, SECTOR_SIZE)
               THEN /\ flash' = SectorErase(flash, client.start, SECTOR_SIZE)
                    /\ fresh' = fresh \cup
                           {a \in Addrs : client.start <= a
                                          /\ a < client.start + SECTOR_SIZE}
                    /\ client' = [client EXCEPT !.pc = "erase_send"]
               ELSE /\ client' = Reject(client, Head(h2c))
                    /\ UNCHANGED <<flash, fresh>>
       ELSE /\ client' = ToAbort(client)
            /\ UNCHANGED <<h2c, flash, fresh>>
    /\ UNCHANGED <<image, host, c2h, accepted, sent, flash0, blvars, authvars>>

\* Client::erase_sector, the send of SectorErased; then now = start.
ClientEraseSend ==
    /\ client.pc = "erase_send"
    /\ CanSend(c2h, host)
    /\ IF SendOk(host)
       THEN /\ c2h' = Append(c2h, SectorErased)
            /\ sent' = Append(sent, SectorErased)
            /\ client' = ClientContinue([client EXCEPT !.now = client.start])
       ELSE /\ client' = ToAbort(client)
            /\ UNCHANGED <<c2h, sent>>
    /\ UNCHANGED <<image, host, flash, h2c, accepted, fresh, flash0, blvars, authvars>>

\* Client::write_next_chunk, the receive, chunk_write and position += CHUNK_SIZE.
\* A failed assertion in chunk_write panics the task: the Client is dropped.
ClientWriteRecv ==
    /\ client.pc = "write_recv"
    /\ CanRecv(h2c, host)
    /\ IF RecvOk(h2c)
       THEN LET m == Head(h2c) IN
            IF /\ ClientWriteAccepts(m, client.position)
               /\ RangeOk(flash, m.addr, Len(m.data))
            THEN /\ flash' = ChunkWrite(flash, m.addr, m.data)
                 /\ accepted' = Append(accepted, m.addr)
                 /\ fresh' = fresh \ {a \in Addrs : m.addr <= a
                                                    /\ a < m.addr + Len(m.data)}
                 /\ IF DirtyOffsets(flash, m.addr, Len(m.data)) = {}
                    THEN /\ client' = [client EXCEPT !.pc = "write_send",
                                !.position = client.position + CHUNK_SIZE]
                         /\ h2c' = Tail(h2c)
                    ELSE /\ client' = Dropped(client, "Panic")
                         /\ h2c' = <<>>
            ELSE /\ client' = Reject(client, m)
                 /\ h2c' = Tail(h2c)
                 /\ UNCHANGED <<flash, accepted, fresh>>
       ELSE /\ client' = ToAbort(client)
            /\ UNCHANGED <<h2c, flash, accepted, fresh>>
    /\ UNCHANGED <<image, host, c2h, sent, flash0, blvars, authvars>>

\* Client::write_next_chunk, the send of ChunkWritten; then now += CHUNK_SIZE.
ClientWriteSend ==
    /\ client.pc = "write_send"
    /\ CanSend(c2h, host)
    /\ IF SendOk(host)
       THEN /\ c2h' = Append(c2h, ChunkWritten)
            /\ sent' = Append(sent, ChunkWritten)
            /\ client' = ClientContinue([client EXCEPT
                             !.now = client.now + CHUNK_SIZE])
       ELSE /\ client' = ToAbort(client)
            /\ UNCHANGED <<c2h, sent>>
    /\ UNCHANGED <<image, host, flash, h2c, accepted, fresh, flash0, blvars, authvars>>

\* Client::boot, the receive.
ClientBootRecv ==
    /\ client.pc = "boot_recv"
    /\ CanRecv(h2c, host)
    /\ IF RecvOk(h2c)
       THEN /\ h2c' = Tail(h2c)
            /\ client' = IF Head(h2c) = Boot
                         THEN [client EXCEPT !.pc = "boot_send"]
                         ELSE Reject(client, Head(h2c))
       ELSE /\ client' = ToAbort(client)
            /\ UNCHANGED h2c
    /\ UNCHANGED <<image, host, flash, c2h, accepted, fresh, sent, flash0, blvars, authvars>>

\* Client::boot, the send of Booting: bootload returns Ok and the Client
\* stays alive (the task returns it to main).
ClientBootSend ==
    /\ client.pc = "boot_send"
    /\ CanSend(c2h, host)
    /\ IF SendOk(host)
       THEN /\ c2h' = Append(c2h, Booting)
            /\ sent' = Append(sent, Booting)
            /\ client' = [client EXCEPT !.pc = "done", !.res = "Ok"]
       ELSE /\ client' = ToAbort(client)
            /\ UNCHANGED <<c2h, sent>>
    /\ UNCHANGED <<image, host, flash, h2c, accepted, fresh, flash0, blvars, authvars>>

\* bootload's Err arm for the Client: Client::abort sends ErrorReset and
\* ignores the send's result; bootload returns Err, the task's unwrap panics
\* and the Client is dropped (what its receiver still held is discarded).
ClientAbort ==
    /\ client.pc = "abort"
    /\ CanSend(c2h, host)
    /\ IF SendOk(host)
       THEN /\ c2h' = Append(c2h, ErrorReset)
            /\ sent' = Append(sent, ErrorReset)
       ELSE UNCHANGED <<c2h, sent>>
    /\ client' = Dropped([client EXCEPT !.aborts = client.aborts + 1], "Err")
    /\ h2c' = <<>>
    /\ UNCHANGED <<image, host, flash, accepted, fresh, flash0, blvars, authvars>>

ClientStep ==
    \/ ClientStartRecv
    \/ ClientStartSend
    \/ ClientEraseRecv
    \/ ClientEraseSend
    \/ ClientWriteRecv
    \/ ClientWriteSend
    \/ ClientBootRecv
    \/ ClientBootSend
    \/ ClientAbort

\* --------------------------------------------------------- Host || Client

Next == HostStep \/ ClientStep

Spec == Init /\ [][Next]_vars

\* The tokio runtime polls every task that can make progress.
FairSpec == Spec /\ WF_vars(HostStep) /\ WF_vars(ClientStep)

\* ------------------------------------------- Client against any peer

\* Payloads a peer may send: CHUNK_SIZE bytes, or one byte short.
AdvData == {[i \in 1..l |-> DemoByte] : l \in {CHUNK_SIZE - 1, CHUNK_SIZE}}

\* Chunk-aligned addresses up to the end of the flash.
AdvAddrs == {a \in 0..TOTAL_SIZE : a % CHUNK_SIZE = 0}

\* Every Host2Client variant, with in-range and out-of-range contents.
AdvMessages ==
    {Start(n) : n \in 0..(TOTAL_SIZE + ExtraLen)}
    \cup {EraseSector(a, l) : a \in AdvAddrs, l \in {CHUNK_SIZE, SECTOR_SIZE}}
    \cup {WriteData(a, d) : a \in AdvAddrs, d \in AdvData}
    \cup {Boot, Abort}

\* The peer sends any message while it holds its sender.  The Client takes
\* its messages one at a time and in order, so the peer hands the next one
\* over once the last one was taken, and stops once the Client receives no
\* more (it is in abort, or its run ended).
PeerSend ==
    /\ Alive(host)
    /\ client.pc \notin {"abort", "done"}
    /\ h2c = <<>>
    /\ \E m \in AdvMessages : h2c' = Append(h2c, m)
    /\ UNCHANGED <<image, host, client, flash, c2h, accepted, fresh, sent, flash0, blvars, authvars>>

\* The peer takes the oldest reply.
PeerRecv ==
    /\ Alive(host)
    /\ c2h # <<>>
    /\ c2h' = Tail(c2h)
    /\ UNCHANGED <<image, host, client, flash, h2c, accepted, fresh, sent, flash0, blvars, authvars>>

\* The peer drops both its endpoints.
PeerClose ==
    /\ Alive(host)
    /\ host' = [host EXCEPT !.alive = FALSE]
    /\ c2h' = <<>>
    /\ UNCHANGED <<image, client, flash, h2c, accepted, fresh, sent, flash0, blvars, authvars>>

InitAdv == Init /\ image = <<>>

NextAdv == ClientStep \/ PeerSend \/ PeerRecv \/ PeerClose

SpecAdv == InitAdv /\ [][NextAdv]_vars

\* ------------------------------------------- Bootloader::step_sector

\* usize::checked_add: None on overflow.
CheckedAddOk(a, b) == a + b <= UsizeMax

\* check_crc: returns Ok(()) whatever the data and the crc are.
check_crc(data, crc) == TRUE

\* The integrity tag of a payload; the algorithm is the implementer's, here
\* the byte sum, kept to 16 bits.
RECURSIVE ByteSum(_)
ByteSum(data) == IF data = <<>> THEN 0 ELSE Head(data) + ByteSum(Tail(data))

TagOf(data) == ByteSum(data) % (2 ^ 16)

\* step_sector's checks of a StartSector: aligned, one sector long, in range.
SectorGood(m) ==
    /\ m.start % blHw.sector_size = 0
    /\ m.len = blHw.sector_size
    /\ m.start >= blHw.range_start

\* step_sector's checks of a Chunk before check_crc: at now, not empty.
ChunkGood(m, now) == m.start = now /\ Len(m.data) # 0

BlChunkLens == {0, 1, CHUNK_SIZE, SECTOR_SIZE + 1}

BlPayloads == {[i \in 1..l |-> DemoByte] : l \in BlChunkLens}

BlSectorStarts == {a \in 0..UsizeMax : a % CHUNK_SIZE = 0}

\* What comms.recv may return inside step_sector.
BlMessages ==
    {BlStart}
    \cup {StartSector(a, l) : a \in BlSectorStarts, l \in {CHUNK_SIZE, SECTOR_SIZE}}
    \cup UNION {{Chunk(a, d, c) : a \in 0..UsizeMax,
                                   c \in {TagOf(d), (TagOf(d) + 1) % (2 ^ 16)}}
                 : d \in BlPayloads}

BlFail(b) == [b EXCEPT !.pc = "done", !.res = "Err"]

\* The head of the chunk loop: while now < end.
BlLoop(b) ==
    IF b.now < b.end THEN [b EXCEPT !.pc = "chunk_recv"]
    ELSE [b EXCEPT !.pc = "done", !.res = "Ok"]

\* step_sector from its first recv through hw.erase_sector: the transport
\* and the hardware may fail.
BlSectorRecv ==
    /\ bl.pc = "sector_recv"
    /\ \E recvOk \in BOOLEAN, hwOk \in BOOLEAN, m \in BlMessages :
          bl' = IF /\ recvOk
                   /\ m.type = "StartSector"
                   /\ SectorGood(m)
                   /\ CheckedAddOk(m.start, m.len)
                   /\ hwOk
                THEN [bl EXCEPT !.pc = "sector_send", !.start = m.start,
                                !.end = m.start + m.len]
                ELSE BlFail(bl)
    /\ UNCHANGED <<bootvars, authvars, blHw, blWrites, blSent, run>>

\* The send of ErasedSector(start); then now = start and the loop test.
BlSectorSend ==
    /\ bl.pc = "sector_send"
    /\ \E sendOk \in BOOLEAN :
          IF sendOk
          THEN /\ blSent' = Append(blSent, ErasedSector(bl.start))
               /\ bl' = BlLoop([bl EXCEPT !.now = bl.start])
          ELSE /\ bl' = BlFail(bl)
               /\ UNCHANGED blSent
    /\ UNCHANGED <<bootvars, authvars, blHw, blWrites, run>>

\* One pass of the chunk loop: recv, the checks, check_crc, the checked_add,
\* hw.write_chunk, now = new_end.
BlChunkRecv ==
    /\ bl.pc = "chunk_recv"
    /\ \E recvOk \in BOOLEAN, hwOk \in BOOLEAN, m \in BlMessages :
          IF /\ recvOk
             /\ m.type = "Chunk"
             /\ ChunkGood(m, bl.now)
             /\ check_crc(m.data, m.crc)
             /\ CheckedAddOk(bl.now, Len(m.data))
          THEN /\ blWrites' = Append(blWrites, m)
               /\ bl' = IF hwOk THEN BlLoop([bl EXCEPT !.now = bl.now + Len(m.data)])
                        ELSE BlFail(bl)
          ELSE /\ bl' = BlFail(bl)
               /\ UNCHANGED blWrites
    /\ UNCHANGED <<bootvars, authvars, blHw, blSent, run>>

NextBl == BlSectorRecv \/ BlSectorSend \/ BlChunkRecv

InitBl ==
    /\ InitBootload
    /\ image = <<>>
    /\ \E hw \in HwImpls : InitBootloader(hw)
    /\ InitAuther(DemoUsername, DemoPassword, "challenge_responder")

SpecBl == InitBl /\ [][NextBl]_vars

\* ------------------------------------------------- Bootloader::run and step

\* step's match on what recv returned: Ok(ToBootloader::Start).
StepAccepts(m) == m = BlStart

\* run's Err arm, after the ErrorReset send: the loop calls step again.
AfterReset(r) == [r EXCEPT !.pc = "step_recv", !.resets = r.resets + 1]

\* step, the recv and the match: anything but Ok(Start) is Err(()).
RunStepRecv ==
    /\ run.pc = "step_recv"
    /\ run.steps < MaxSteps
    /\ \E recvOk \in BOOLEAN, m \in BlMessages :
          run' = [run EXCEPT
                    !.steps = run.steps + 1,
                    !.last = IF recvOk THEN m ELSE NoMessage,
                    !.pc = IF recvOk /\ StepAccepts(m) THEN "step_send"
                           ELSE "reset_send"]
    /\ UNCHANGED <<bootvars, authvars, bl, blHw, blWrites, blSent>>

\* step, the send of FromBootloader::Ok; run returns when step is Ok.
RunStepSend ==
    /\ run.pc = "step_send"
    /\ \E sendOk \in BOOLEAN :
          IF sendOk
          THEN /\ blSent' = Append(blSent, BlOk)
               /\ run' = [run EXCEPT !.pc = "returned", !.res = "Ok"]
          ELSE /\ run' = [run EXCEPT !.pc = "reset_send"]
               /\ UNCHANGED blSent
    /\ UNCHANGED <<bootvars, authvars, bl, blHw, blWrites>>

\* run's Err arm: the ErrorReset send, its result ignored.
RunResetSend ==
    /\ run.pc = "reset_send"
    /\ \E sendOk \in BOOLEAN :
          blSent' = IF sendOk THEN Append(blSent, BlErrorReset) ELSE blSent
    /\ run' = AfterReset(run)
    /\ UNCHANGED <<bootvars, authvars, bl, blHw, blWrites>>

NextRun == RunStepRecv \/ RunStepSend \/ RunResetSend

SpecRun == InitBl /\ [][NextRun]_vars

\* ------------------------------------------------------- auther: two_factor

\* challenge_responder: the length of the challenge.
challenge_responder(c) == Len(c)

\* What the client side puts into its ChallengeResponse.
Respond(c, challenge) ==
    IF c.responder = "challenge_responder" THEN challenge_responder(challenge)
    ELSE challenge_responder(challenge) + 1

\* Host::check_creds, the offer for the credentials: NoOffer is return Err.
OfferFor(u, p) ==
    IF u = "root" /\ p = "hunter2" THEN Authenticated(RootToken)
    ELSE IF u = "tryme" /\ p = "tryme" THEN ChallengeOffer(ChallengeText)
    ELSE NoOffer

\* Mutant: any ChallengeResponse is taken.
ResponseMatchesAny(r, challenge) == TRUE

\* Host::challenge_response's guard: response == challenge_responder(our_challenge).
ResponseMatches(r, challenge) == r = challenge_responder(challenge)

\* two_factor returned Ok(t): the task sleeps and hands its struct to main.
AuthOk(p, t) == [p EXCEPT !.pc = "done", !.res = "Ok", !.token = t]

\* Host::check_creds, the receive and the match on the credentials.
AuthHostCredsRecv ==
    /\ authHost.pc = "creds_recv"
    /\ CanRecv(authC2h, authClient)
    /\ IF RecvOk(authC2h)
       THEN LET m == Head(authC2h) IN
            /\ authC2h' = Tail(authC2h)
            /\ authHost' =
                  IF m.type = "Authenticate"
                     /\ OfferFor(m.username, m.password) # NoOffer
                  THEN [authHost EXCEPT !.pc = "offer_send",
                           !.offer = OfferFor(m.username, m.password)]
                  ELSE ToAbort(authHost)
       ELSE /\ authHost' = ToAbort(authHost)
            /\ UNCHANGED authC2h
    /\ UNCHANGED <<bootvars, blvars, authClient, authH2c>>

\* Host::check_creds, the send of the Offer; two_factor returns the token
\* of an Authenticated offer and goes on to challenge_response otherwise.
AuthHostOfferSend ==
    /\ authHost.pc = "offer_send"
    /\ CanSend(authH2c, authClient)
    /\ IF SendOk(authClient)
       THEN /\ authH2c' = Append(authH2c, OfferMsg(authHost.offer))
            /\ authHost' = IF authHost.offer.kind = "Authenticated"
                           THEN AuthOk(authHost, authHost.offer.token)
                           ELSE [authHost EXCEPT !.pc = "resp_recv"]
       ELSE /\ authHost' = ToAbort(authHost)
            /\ UNCHANGED authH2c
    /\ UNCHANGED <<bootvars, blvars, authClient, authC2h>>

\* Host::challenge_response, the receive and the guard on the response.
AuthHostRespRecv ==
    /\ authHost.pc = "resp_recv"
    /\ CanRecv(authC2h, authClient)
    /\ IF RecvOk(authC2h)
       THEN LET m == Head(authC2h) IN
            /\ authC2h' = Tail(authC2h)
            /\ authHost' =
                  IF m.type = "ChallengeResponse"
                  THEN IF ResponseMatches(m.response, authHost.offer.challenge)
                       THEN [authHost EXCEPT !.pc = "token_send",
                                              !.response = m.response]
                       ELSE ToAbort([authHost EXCEPT !.response = m.response])
                  ELSE ToAbort(authHost)
       ELSE /\ authHost' = ToAbort(authHost)
            /\ UNCHANGED authC2h
    /\ UNCHANGED <<bootvars, blvars, authClient, authH2c>>

\* Host::challenge_response, the send of Token(1234).
AuthHostTokenSend ==
    /\ authHost.pc = "token_send"
    /\ CanSend(authH2c, authClient)
    /\ IF SendOk(authClient)
       THEN /\ authH2c' = Append(authH2c, TokenMsg(ChallengeToken))
            /\ authHost' = AuthOk(authHost, ChallengeToken)
       ELSE /\ authHost' = ToAbort(authHost)
            /\ UNCHANGED authH2c
    /\ UNCHANGED <<bootvars, blvars, authClient, authC2h>>

\* two_factor's Err arm for the Host: abort sends ErrorReset, its result
\* ignored; two_factor returns Err, the task's unwrap panics and the Host is
\* dropped with what its receiver still held.
AuthHostAbort ==
    /\ authHost.pc = "abort"
    /\ CanSend(authH2c, authClient)
    /\ authH2c' = IF SendOk(authClient) THEN Append(authH2c, AuthErrorReset)
                  ELSE authH2c
    /\ authHost' = Dropped(authHost, "Err")
    /\ authC2h' = <<>>
    /\ UNCHANGED <<bootvars, blvars, authClient>>

AuthHostStep ==
    \/ AuthHostCredsRecv
    \/ AuthHostOfferSend
    \/ AuthHostRespRecv
    \/ AuthHostTokenSend
    \/ AuthHostAbort

\* Client::check_creds, the send of Authenticate.
AuthClientCredsSend ==
    /\ authClient.pc = "creds_send"
    /\ CanSend(authC2h, authHost)
    /\ IF SendOk(authHost)
       THEN /\ authC2h' = Append(authC2h, Authenticate(authClient.username,
                                                       authClient.password))
            /\ authClient' = [authClient EXCEPT !.pc = "offer_recv"]
       ELSE /\ authClient' = ToAbort(authClient)
            /\ UNCHANGED authC2h
    /\ UNCHANGED <<bootvars, blvars, authHost, authH2c>>

\* Client::check_creds, the receive: an Offer is the outcome, and two_factor
\* returns the token of an Authenticated one.
AuthClientOfferRecv ==
    /\ authClient.pc = "offer_recv"
    /\ CanRecv(authH2c, authHost)
    /\ IF RecvOk(authH2c)
       THEN LET m == Head(authH2c) IN
            /\ authH2c' = Tail(authH2c)
            /\ authClient' =
                  IF m.type = "Offer"
                  THEN IF m.offer.kind = "Authenticated"
                       THEN AuthOk(authClient, m.offer.token)
                       ELSE [authClient EXCEPT !.pc = "resp_send",
                                !.challenge = m.offer.challenge]
                  ELSE ToAbort(authClient)
       ELSE /\ authClient' = ToAbort(authClient)
            /\ UNCHANGED authH2c
    /\ UNCHANGED <<bootvars, blvars, authHost, authC2h>>

\* Client::challenge_response, the send of the response.
AuthClientRespSend ==
    /\ authClient.pc = "resp_send"
    /\ CanSend(authC2h, authHost)
    /\ IF SendOk(authHost)
       THEN /\ authC2h' = Append(authC2h,
                   ChallengeResponse(Respond(authClient, authClient.challenge)))
            /\ authClient' = [authClient EXCEPT !.pc = "token_recv"]
       ELSE /\ authClient' = ToAbort(authClient)
            /\ UNCHANGED authC2h
    /\ UNCHANGED <<bootvars, blvars, authHost, authH2c>>

\* Client::challenge_response, the receive: Token(t) is Ok(t).
AuthClientTokenRecv ==
    /\ authClient.pc = "token_recv"
    /\ CanRecv(authH2c, authHost)
    /\ IF RecvOk(authH2c)
       THEN LET m == Head(authH2c) IN
            /\ authH2c' = Tail(authH2c)
            /\ authClient' = IF m.type = "Token" THEN AuthOk(authClient, m.token)
                             ELSE ToAbort(authClient)
       ELSE /\ authClient' = ToAbort(authClient)
            /\ UNCHANGED authH2c
    /\ UNCHANGED <<bootvars, blvars, authHost, authC2h>>

\* two_factor's Err arm for the Client, as for the Host.
AuthClientAbort ==
    /\ authClient.pc = "abort"
    /\ CanSend(authC2h, authHost)
    /\ authC2h' = IF SendOk(authHost) THEN Append(authC2h, AuthErrorReset)
                  ELSE authC2h
    /\ authClient' = Dropped(authClient, "Err")
    /\ authH2c' = <<>>
    /\ UNCHANGED <<bootvars, blvars, authHost>>

AuthClientStep ==
    \/ AuthClientCredsSend
    \/ AuthClientOfferRecv
    \/ AuthClientRespSend
    \/ AuthClientTokenRecv
    \/ AuthClientAbort

NextAuth == AuthHostStep \/ AuthClientStep

InitAuth ==
    /\ InitBootload
    /\ image = <<>>
    /\ flash = [a \in Addrs |-> DemoFlashByte]
    /\ InitBootloader([sector_size |-> SECTOR_SIZE, range_start |-> 0])
    /\ \E u \in Usernames, p \in Passwords, r \in Responders : InitAuther(u, p, r)

SpecAuth == InitAuth /\ [][NextAuth]_vars

\* ------------------------------------------------------------ properties

Last(q) == q[Len(q)]

Failed(p) == p.res \in {"Err", "Panic"}

BothOk == host.res = "Ok" /\ client.res = "Ok"

\* C1. Round-trip fidelity: whatever the image and the initial flash, when
\* bootload returned Ok on the Host and on the Client, flash[0..len(image)]
\* equals the image byte for byte.
C1_RoundTrip ==
    BothOk => \A i \in 1..Len(image) : flash[i - 1] = image[i]

\* A full-size position-dependent image arrived in flash that started as 0x00.
C1_Witness ==
    /\ BothOk
    /\ Len(image) = TOTAL_SIZE
    /\ image[1] # image[2]
    /\ flash0[0] = DemoFlashByte

\* C2. Erase-before-write: chunk_write's assertion never fails, and every
\* byte a chunk_write targets was erased by sector_erase since it was last
\* written and still reads 0xFF.
C2_EraseBeforeWrite ==
    /\ [](client.res # "Panic")
    /\ [][accepted' # accepted =>
            \A a \in Last(accepted')..(Last(accepted') + Len(Head(h2c).data) - 1) :
                a \in fresh /\ flash[a] = ERASED]_vars

\* Every chunk of a flash that started as 0x00 was written.
C2_Witness ==
    /\ Len(accepted) * CHUNK_SIZE = TOTAL_SIZE
    /\ flash0[0] = DemoFlashByte
    /\ client.res = "Ok"

\* C3. Completion: for every image length up to TOTAL_SIZE, multiple of
\* CHUNK_SIZE or not, neither bootload fails on the way to Ok.
C3_Completion ==
    Len(image) <= TOTAL_SIZE => ~Failed(host) /\ ~Failed(client)

\* C4. Abort propagation: with an image longer than TOTAL_SIZE the Client
\* never sends Starting or Booting, and in the end the Client rejected Start
\* and sent ErrorReset, the Host received it and called abort once, and both
\* bootloads returned Err.
C4_AbortPropagation ==
    Len(image) > TOTAL_SIZE =>
        /\ [](\A i \in 1..Len(sent) : sent[i] \notin {Starting, Booting})
        /\ <>[](/\ client.res = "Err"
                /\ client.rejected = [type |-> "Start"]
                /\ sent = <<ErrorReset>>
                /\ host.last = ErrorReset
                /\ host.aborts = 1
                /\ host.res = "Err")

\* Both sides ended with Err over an image that is too long.
C4_Witness ==
    /\ Len(image) > TOTAL_SIZE
    /\ host.res = "Err"
    /\ client.res = "Err"
    /\ host.last = ErrorReset

\* C5. No silent divergence: a state from which neither side can take a step
\* is one where both bootloads ended, and there the Host returned Ok exactly
\* when the Client did.
C5_NoSilentDivergence ==
    (~ENABLED Next) =>
        /\ host.pc = "done"
        /\ client.pc = "done"
        /\ (host.res = "Ok" <=> client.res = "Ok")

\* A terminal state in which neither side succeeded: the Host panicked and
\* the Client, left without a peer, returned Err.
C5_Witness ==
    /\ host.pc = "done"
    /\ client.pc = "done"
    /\ host.res = "Panic"
    /\ client.res = "Err"

\* The Client's positions at a channel receive.
RecvPcs == {"start_recv", "erase_recv", "write_recv", "boot_recv"}

\* The Client takes a step.
ClientMoves == client' # client

\* C6. Monotonic addressing: the addresses the Client passes to chunk_write
\* are 0, CHUNK_SIZE, 2 * CHUNK_SIZE, ... in this order, its position is the
\* address after the last acknowledged one, and it never decreases.
C6_MonotonicAddressing ==
    /\ [](\A i \in 1..Len(accepted) : accepted[i] = (i - 1) * CHUNK_SIZE)
    /\ [](client.pc # "write_send" /\ ~Failed(client)
            => client.position = Len(accepted) * CHUNK_SIZE)
    /\ [][client'.position >= client.position]_vars

\* The Client accepted chunks in two sectors from a peer that sends anything.
C6_Witness ==
    /\ Len(accepted) > ChunksPerSector
    /\ client.pc = "write_recv"

\* C7. Idempotent rejection: whenever the Client receives a WriteData whose
\* addr is below its position, it leaves flash and position alone, calls no
\* chunk_write, sends nothing and goes to abort; and abort sends ErrorReset
\* (when the peer still listens) and ends the run with Err.
C7_IdempotentRejection ==
    /\ [][(/\ client.pc \in RecvPcs
           /\ ClientMoves
           /\ h2c # <<>>
           /\ Head(h2c).type = "WriteData"
           /\ Head(h2c).addr < client.position)
          => (/\ flash' = flash
              /\ accepted' = accepted
              /\ sent' = sent
              /\ client'.position = client.position
              /\ client'.pc = "abort")]_vars
    /\ [][client.pc = "abort" /\ ClientMoves
          => (/\ client'.res = "Err"
              /\ flash' = flash
              /\ sent' = IF Alive(host) THEN Append(sent, ErrorReset) ELSE sent)]_vars

\* A WriteData below the position was rejected after chunks were written,
\* and ErrorReset was the reply.
C7_Witness ==
    /\ client.res = "Err"
    /\ client.rejected.type = "WriteData"
    /\ client.rejected.addr < client.position
    /\ accepted # <<>>
    /\ Last(sent) = ErrorReset

\* C8. Start validation: the Client's first step records image_len and goes
\* on to reply Starting exactly when the first message is a Start whose
\* total_size is at most TOTAL_SIZE; otherwise it sends no Starting, leaves
\* image_len unset and the flash untouched, and the run fails.
C8_StartValidation ==
    /\ [][client.pc = "start_recv" /\ ClientMoves =>
            IF /\ h2c # <<>>
               /\ Head(h2c).type = "Start"
               /\ Head(h2c).total_size <= TOTAL_SIZE
            THEN /\ client'.pc = "start_send"
                 /\ client'.image_len = Head(h2c).total_size
            ELSE /\ client'.pc = "abort"
                 /\ client'.image_len = None
                 /\ flash' = flash
                 /\ sent' = sent]_vars
    /\ [][client.pc = "start_send" /\ ClientMoves =>
            IF Alive(host)
            THEN sent' = <<Starting>> /\ client'.image_len = client.image_len
            ELSE client'.pc = "abort"]_vars
    /\ [](client.image_len = None =>
            /\ flash = flash0
            /\ \A i \in 1..Len(sent) : sent[i] # Starting
            /\ client.pc \in {"start_recv", "abort", "done"}
            /\ client.res \in {"Running", "Err"})

\* Start { total_size: TOTAL_SIZE } was accepted and answered with Starting.
C8_Witness ==
    /\ client.image_len = TOTAL_SIZE
    /\ sent # <<>>
    /\ sent[1] = Starting

\* C9. Integrity check: every chunk that reached hw.write_chunk carried the
\* tag of its data.
C9_IntegrityCheck ==
    \A i \in 1..Len(blWrites) : blWrites[i].crc = TagOf(blWrites[i].data)

\* The Host's positions at a request send.
HostSendPcs == {"start_send", "erase_send", "write_send", "boot_send"}

\* C10. Request/response discipline: neither channel ever holds more than
\* one message, and whenever the Host is about to send a request every
\* request it sent was acknowledged and both channels are empty.
C10_RequestResponse ==
    /\ Len(h2c) <= 1
    /\ Len(c2h) <= 1
    /\ host.pc \in HostSendPcs =>
          /\ host.acks = host.sends
          /\ h2c = <<>>
          /\ c2h = <<>>

\* The Host is about to send Boot after a Start, two EraseSector and
\* WriteData for every chunk of the flash.
C10_Witness ==
    /\ host.pc = "boot_send"
    /\ host.sends = 1 + SectorsTotal + SectorsTotal * ChunksPerSector

\* The sector of address a overlaps [0, image_len).
InImageSectors(a) ==
    client.image_len # None /\ (a \div SECTOR_SIZE) * SECTOR_SIZE < client.image_len

\* C11. Untouched remainder: after a successful run over flash that started
\* all erased, every byte at or past the image length has its initial value;
\* and in every state, every byte outside the sectors that overlap
\* [0, image_len) has its initial value.
C11_UntouchedRemainder ==
    /\ (BothOk /\ \A a \in Addrs : flash0[a] = ERASED)
          => \A a \in Addrs : a >= Len(image) => flash[a] = flash0[a]
    /\ \A a \in Addrs : ~InImageSectors(a) => flash[a] = flash0[a]

\* A successful run of an image shorter than a sector over erased flash: the
\* rest of its sector was erased again, the next sector was left alone.
C11_Witness ==
    /\ BothOk
    /\ Len(image) > 0
    /\ Len(image) < SECTOR_SIZE
    /\ flash0[0] = ERASED
    /\ ~InImageSectors(TOTAL_SIZE - 1)

\* The Client takes the oldest message of its channel.
ClientReceives == client.pc \in RecvPcs /\ h2c # <<>> /\ h2c' # h2c

\* The flash with [addr, addr + len) erased.
ErasedAt(f, addr, len) ==
    [a \in Addrs |-> IF addr <= a /\ a < addr + len THEN ERASED ELSE f[a]]

\* An EraseSector of one sector inside the flash is next, and the Client is
\* waiting for an EraseSector.
EraseOffered ==
    /\ client.pc = "erase_recv"
    /\ ClientReceives
    /\ Head(h2c).type = "EraseSector"
    /\ Head(h2c).len = SECTOR_SIZE
    /\ Head(h2c).addr + SECTOR_SIZE <= TOTAL_SIZE

\* C12 as claimed. Erase address is trusted: an EraseSector whose len is the
\* sector size is accepted whatever its addr, [addr, addr + len) is erased
\* and SectorErased is the reply.
C12_EraseAddressTrusted ==
    [][EraseOffered =>
          /\ client'.pc = "erase_send"
          /\ flash' = ErasedAt(flash, Head(h2c).addr, SECTOR_SIZE)]_vars

\* C12 as amended. An EraseSector whose len is the sector size is accepted
\* exactly when its addr is the Client's position: then [addr, addr + len)
\* is erased and SectorErased is the reply; otherwise nothing is erased and
\* the step fails.
C12_EraseAddressChecked ==
    /\ [][EraseOffered =>
            IF Head(h2c).addr = client.position
            THEN /\ client'.pc = "erase_send"
                 /\ flash' = ErasedAt(flash, Head(h2c).addr, SECTOR_SIZE)
            ELSE /\ client'.pc = "abort"
                 /\ flash' = flash
                 /\ sent' = sent]_vars
    /\ [][client.pc = "erase_send" /\ client' # client /\ Alive(host)
            => sent' = Append(sent, SectorErased)]_vars

\* An EraseSector of the right length for another sector than the Client's
\* next one was rejected.
C12_Witness ==
    /\ client.rejected.type = "EraseSector"
    /\ client.rejected.len = SECTOR_SIZE
    /\ client.rejected.addr # client.position
    /\ client.rejected.addr + SECTOR_SIZE <= TOTAL_SIZE
    /\ client.res = "Err"

\* A WriteData is the newest message of the Host's channel and the Host
\* waits for its reply.
ChunkUnacknowledged ==
    host.pc = "write_recv" /\ h2c # <<>> /\ Last(h2c).type = "WriteData"

\* C13 as claimed. Host cursor advances only on acknowledgement: while a
\* WriteData is sent and not yet acknowledged, Host.position is the address
\* of that WriteData, and the position moves only when ChunkWritten comes in.
C13_AdvanceOnAck ==
    ChunkUnacknowledged => host.position = Last(h2c).addr

\* C13 as amended. Host.position increases by CHUNK_SIZE when the WriteData
\* is sent, before its reply is awaited: while the reply is outstanding the
\* position is the address of that WriteData plus CHUNK_SIZE, receiving the
\* reply (ChunkWritten, an error, or a failed receive) leaves the position
\* alone, and the position changes only in write_next_chunk before its receive.
C13_AdvanceOnSend ==
    /\ [](host.pc = "write_recv" => host.position = host.now + CHUNK_SIZE)
    /\ [](ChunkUnacknowledged => host.position = Last(h2c).addr + CHUNK_SIZE)
    /\ [][host.pc = "write_recv" => host'.position = host.position]_vars
    /\ [][host'.position # host.position
             => /\ host.pc = "write_send"
                /\ host'.position = host.position + CHUNK_SIZE]_vars

\* A WriteData is in flight and the position is already past it.
C13_Witness ==
    /\ ChunkUnacknowledged
    /\ host.position = Last(h2c).addr + CHUNK_SIZE
    /\ host.sends > host.acks

\* Message m is the one the Client's current step matches on.
ClientExpects(m) ==
    CASE client.pc = "start_recv" -> ClientStartAccepts(m)
      [] client.pc = "erase_recv" ->
             ClientEraseAccepts(m, client.start, SECTOR_SIZE)
      [] client.pc = "write_recv" -> ClientWriteAccepts(m, client.position)
      [] client.pc = "boot_recv" -> m = Boot
      [] OTHER -> FALSE

\* How often ErrorReset occurs in a history of sent messages.
ErrorResets(q) == Cardinality({i \in 1..Len(q) : q[i] = ErrorReset})

\* C14. Device abort is terminal: receiving Abort, an unexpected message or
\* one that fails validation takes the Client to its abort with nothing
\* erased, written or sent; so does a failed receive or send; the abort
\* attempts one ErrorReset (sent when the peer still listens) and returns
\* Err; after that the Client receives nothing, sends nothing and changes
\* no flash.
C14_AbortTerminal ==
    /\ [][ClientReceives /\ ~ClientExpects(Head(h2c))
             => /\ client'.pc = "abort"
                /\ flash' = flash
                /\ sent' = sent]_vars
    /\ [][client.pc \in RecvPcs /\ ClientMoves /\ h2c = <<>>
             => client'.pc = "abort" /\ flash' = flash /\ sent' = sent]_vars
    /\ [][client.pc = "abort" /\ ClientMoves
             => /\ client'.res = "Err"
                /\ client'.pc = "done"
                /\ client'.aborts = client.aborts + 1
                /\ flash' = flash
                /\ sent' = IF Alive(host) THEN Append(sent, ErrorReset) ELSE sent]_vars
    /\ [][client.res = "Err"
             => /\ client' = client
                /\ flash' = flash
                /\ sent' = sent
                /\ h2c' = h2c
                /\ h2c = <<>>]_vars
    /\ [](client.aborts <= 1 /\ ErrorResets(sent) <= 1)
    /\ [](client.res = "Err" => client.aborts = 1)

\* The Client was sent Abort, notified the peer once and returned Err.
C14_Witness ==
    /\ client.res = "Err"
    /\ client.rejected.type = "Abort"
    /\ client.aborts = 1
    /\ sent # <<>>
    /\ Last(sent) = ErrorReset
    /\ Len(sent) > 1

\* C15. Bootloader::run terminates on failure: after a failed step run sends
\* ErrorReset once and returns, receiving no further message.
C15_RunTerminatesOnFailure ==
    [][run.pc = "reset_send" /\ run' # run
          => run'.pc = "returned" /\ run'.steps = 1]_vars

\* The Client replied Booting.
BootingSent == \E i \in 1..Len(sent) : sent[i] = Booting

\* Address a lies in a chunk the Client accepted and wrote.
Covered(a) ==
    \E i \in 1..Len(accepted) : accepted[i] <= a /\ a < accepted[i] + CHUNK_SIZE

\* C16. Boot only after the whole image: the Client waits for Boot, and
\* replies Booting, only with image_len set and its position at or past
\* image_len, every address of [0, image_len) being in an accepted chunk;
\* a Boot received while a sector or a chunk is outstanding fails the run
\* and no Booting follows.
C16_BootAfterWholeImage ==
    /\ [](client.pc \in {"boot_recv", "boot_send"} \/ BootingSent
            => /\ client.image_len # None
               /\ client.position >= client.image_len
               /\ \A a \in Addrs : a < client.image_len => Covered(a))
    /\ [][client.pc \in {"erase_recv", "write_recv"} /\ ClientReceives
                                                       /\ Head(h2c) = Boot
             => client'.pc = "abort" /\ sent' = sent]_vars
    /\ [](client.rejected = Boot => ~BootingSent)

\* Booting was sent for an image of more than one sector.
C16_Witness ==
    /\ BootingSent
    /\ client.res = "Ok"
    /\ client.image_len > SECTOR_SIZE
    /\ Len(accepted) > ChunksPerSector

\* Neither side has failed and both channels are empty.
Quiescent ==
    /\ ~Failed(host) /\ ~Failed(client)
    /\ h2c = <<>> /\ c2h = <<>>

\* C17. Cursor agreement: whenever neither side has failed and no message is
\* in flight in either channel, Host.position equals Client.position.
C17_CursorAgreement == Quiescent => host.position = client.position

\* Both cursors stand at the same address inside the image, between two
\* chunks and with a chunk written but its reply not yet sent.
C17_Witness ==
    /\ Quiescent
    /\ host.position = client.position
    /\ host.position > 0
    /\ host.position < Len(image)
    /\ host.pc \in {"write_send", "write_recv"}
    /\ host.sends > 2

C19_InRangeAccess ==
    /\ [](client.image_len # None => client.image_len <= TOTAL_SIZE)
    /\ [](client.pc = "erase_recv"
            => client.start >= 0 /\ client.start + SECTOR_SIZE <= TOTAL_SIZE)
    /\ [](client.pc = "write_recv"
            => client.position >= 0 /\ client.position + CHUNK_SIZE <= TOTAL_SIZE)
    /\ [][client.pc \in {"erase_recv", "write_recv"} /\ ClientReceives
                                                     /\ ClientExpects(Head(h2c))
             => client'.pc # "abort"]_vars
    /\ [][flash' # flash
             => \/ /\ client.pc = "erase_recv"
                   /\ \A a \in Addrs : flash'[a] # flash[a]
                         => client.start <= a /\ a < client.start + SECTOR_SIZE
                \/ /\ client.pc = "write_recv"
                   /\ \A a \in Addrs : flash'[a] # flash[a]
                         => client.position <= a
                            /\ a < client.position + CHUNK_SIZE]_vars

\* An image whose length is no multiple of CHUNK_SIZE was written up to the
\* last chunk of the flash.
C19_Witness ==
    /\ client.image_len # None
    /\ client.image_len % CHUNK_SIZE # 0
    /\ \E i \in 1..Len(accepted) : accepted[i] = TOTAL_SIZE - CHUNK_SIZE
    /\ client.pc = "write_send"

\* The Host knows the Client's credentials.
Recognised == OfferFor(authClient.username, authClient.password) # NoOffer

\* The Client's credentials draw a challenge and its answer is not the one
\* the Host computes.
WrongResponse ==
    /\ OfferFor(authClient.username, authClient.password).kind = "Challenge"
    /\ Respond(authClient, ChallengeText) # challenge_responder(ChallengeText)

\* C20. Two-factor token agreement: the Client's two_factor is Ok(token)
\* only when the Host's is Ok with the same token, the Host having
\* recognised the credentials and, where it offered a Challenge, received
\* the matching ChallengeResponse; with unrecognised credentials or a wrong
\* response neither side is ever Ok, the Client has no token, and the
\* exchange ends with Error on both sides.
C20_TokenAgreement ==
    /\ authClient.res = "Ok"
          => /\ authHost.res = "Ok"
             /\ authClient.token # None
             /\ authHost.token = authClient.token
             /\ Recognised
             /\ authHost.offer = OfferFor(authClient.username, authClient.password)
             /\ authHost.offer.kind = "Challenge"
                   => authHost.response = challenge_responder(authHost.offer.challenge)
    /\ authClient.res # "Ok" => authClient.token = None
    /\ ~Recognised \/ WrongResponse
          => /\ authClient.res # "Ok" /\ authHost.res # "Ok"
             /\ authClient.token = None
             /\ ~ENABLED NextAuth
                   => authClient.res = "Err" /\ authHost.res = "Err"

\* The Client got the token of a challenge it answered.
C20_Witness ==
    /\ authClient.res = "Ok"
    /\ authClient.token = ChallengeToken
    /\ authHost.response = challenge_responder(ChallengeText)

\* A wrong response ended both sides with Error.
C20_WitnessWrong ==
    /\ WrongResponse
    /\ authHost.response # None
    /\ authClient.res = "Err" /\ authHost.res = "Err"

\* How often ChunkWritten occurs in a history of sent messages.
ChunksWritten(q) == Cardinality({i \in 1..Len(q) : q[i] = ChunkWritten})

\* C21. Host never skips a chunk: write_next_chunk is entered only with
\* Host.position below the image length, the branch that advances the
\* position without a WriteData is never taken, every advance of the
\* position is one WriteData sent at the old position, and the WriteData
\* sent are the chunks the Client accepted plus at most the one in flight.
C21_NeverSkips ==
    /\ [](host.pc = "write_send"
             => host.position < Len(image) /\ host.position = host.now)
    /\ [](host.skips = 0)
    /\ [](host.position = host.writes * CHUNK_SIZE)
    /\ [](host.writes \in {Len(accepted), Len(accepted) + 1})
    /\ [](ChunksWritten(sent) <= host.writes)
    /\ [](BothOk => host.writes = ChunksWritten(sent))
    /\ [][host'.position # host.position
             => /\ h2c' = Append(h2c, WriteData(host.position,
                                                ChunkData(image, host.position)))
                /\ host'.writes = host.writes + 1]_vars

\* A run succeeded on an image that ends inside a sector: the chunk loop
\* stopped at the image's end with every chunk sent.
C21_Witness ==
    /\ BothOk
    /\ Len(image) % SECTOR_SIZE # 0
    /\ host.writes > 0
    /\ host.writes * CHUNK_SIZE = Len(image)
    /\ host.position < host.start + SECTOR_SIZE

====
